---- MODULE Spec2Model ----
(***************************************************************************)
(* A model of the Lox scanner (src/src/scanner.rs).                        *)
(*                                                                         *)
(* A character is a one-element name: ASCII characters stand for           *)
(* themselves, "U+00E9" is the non-ASCII letter e-acute and "U+00A1" the   *)
(* non-ASCII punctuation mark inverted-exclamation (both two bytes long in *)
(* UTF-8).  The scanner keeps the source twice: `chars`, indexed by        *)
(* character, and `src`, the UTF-8 string, indexed by byte.  A byte of     *)
(* `src` is the pair <<c, k>>: the k-th byte of the encoding of c.         *)
(* Rust indices are 0-based, TLA+ sequences 1-based: chars[i] of the code  *)
(* is chars[i + 1] here.                                                   *)
(***************************************************************************)
EXTENDS Integers, Sequences, FiniteSets, TLC

VARIABLES scanner, tokens, pc

vars == <<scanner, tokens, pc>>

----------------------------------------------------------------------------
(* Bounds of the model: the inputs scanned.                                *)

MaxLen == 4

MaxLenOps == 5

MaxLenWs == 4

\* the characters the inputs of Spec are drawn from
Alphabet ==
    {".", "/", "=", "!", " ", "\n", "\"", "1", "a", "@", "U+00E9", "U+00A1"}

\* the characters the inputs of SpecOps are drawn from
AlphabetOps == {"!", "=", "<", ">", "a", " "}

\* the characters the inputs of SpecWs are drawn from
AlphabetWs == {" ", "\t", "\r", "\n", "/", "a", "\"", "1", ".", "U+00E9"}

MaxComment == 1

\* the characters of the comment text appended to an input
AlphabetComment == {"a", "\"", "U+00E9"}

SeqsUpTo(A, n) == UNION {[1..k -> A] : k \in 0..n}

----------------------------------------------------------------------------
(* Characters (char of the Rust standard library).                         *)

NUL == "NUL"

AsciiDigits == {"0", "1", "2", "3", "4", "5", "6", "7", "8", "9"}

AsciiLetters ==
    {"a", "b", "c", "d", "e", "f", "g", "h", "i", "j", "k", "l", "m",
     "n", "o", "p", "q", "r", "s", "t", "u", "v", "w", "x", "y", "z",
     "A", "B", "C", "D", "E", "F", "G", "H", "I", "J", "K", "L", "M",
     "N", "O", "P", "Q", "R", "S", "T", "U", "V", "W", "X", "Y", "Z"}

NonAsciiLetters == {"U+00E9"}

NonAscii == {"U+00E9", "U+00A1"}

is_ascii_digit(c) == c \in AsciiDigits

is_alphabetic(c) == c \in AsciiLetters \cup NonAsciiLetters

is_alphanumeric(c) == is_alphabetic(c) \/ c \in AsciiDigits

\* the number of bytes of c in UTF-8
len_utf8(c) == IF c \in NonAscii THEN 2 ELSE 1

\* the UTF-8 string of a character sequence
RECURSIVE Utf8(_)
Utf8(cs) ==
    IF cs = <<>> THEN <<>>
    ELSE [k \in 1..len_utf8(Head(cs)) |-> <<Head(cs), k>>] \o Utf8(Tail(cs))

\* str::is_char_boundary: byte index i starts a character or ends the string
is_char_boundary(s, i) ==
    \/ i = 0
    \/ i = Len(s)
    \/ i > 0 /\ i < Len(s) /\ s[i + 1][2] = 1

LeadByte(b) == b[2] = 1

\* &s[a..b]: panics unless a <= b and both are character boundaries
Slice(s, a, b) ==
    IF a <= b /\ is_char_boundary(s, a) /\ is_char_boundary(s, b)
    THEN [ok |-> TRUE,
          text |-> LET bs == SelectSeq(SubSeq(s, a + 1, b), LeadByte)
                   IN  [i \in 1..Len(bs) |-> bs[i][1]]]
    ELSE [ok |-> FALSE, text |-> <<>>]

----------------------------------------------------------------------------
(* str::parse::<f32>: digits with an optional '.', at least one digit (the *)
(* sign, exponent and inf/nan forms need characters no input here has).    *)
(* The value is <<m, s>>, standing for m / 10^s, with m not ending in 0    *)
(* unless s = 0: "1", "01" and "1.0" are the same number.                  *)

DigitValue(c) == CHOOSE d \in 0..9 : ToString(d) = c

RECURSIVE DigitsValue(_)
DigitsValue(ds) ==
    IF ds = <<>> THEN 0
    ELSE 10 * DigitsValue(SubSeq(ds, 1, Len(ds) - 1)) + DigitValue(ds[Len(ds)])

RECURSIVE Normalize(_, _)
Normalize(m, s) ==
    IF m = 0 THEN <<0, 0>>
    ELSE IF s > 0 /\ m % 10 = 0 THEN Normalize(m \div 10, s - 1)
    ELSE <<m, s>>

IsDot(c) == c = "."

NotDot(c) == c # "."

ParseF32(text) ==
    LET digits == SelectSeq(text, NotDot)
        dots   == SelectSeq(text, IsDot)
        dotAt  == CHOOSE i \in 1..Len(text) : text[i] = "."
    IN  IF /\ \A i \in 1..Len(text) : text[i] \in AsciiDigits \cup {"."}
           /\ Len(dots) <= 1
           /\ Len(digits) >= 1
        THEN [ok |-> TRUE,
              val |-> Normalize(DigitsValue(digits),
                                IF Len(dots) = 1 THEN Len(text) - dotAt ELSE 0)]
        ELSE [ok |-> FALSE, val |-> <<0, 0>>]

----------------------------------------------------------------------------
(* Tokens and errors.                                                      *)

NoNum == <<0, 0>>

Tok(kind) == [kind |-> kind, str |-> <<>>, num |-> NoNum]

IdentifierTok(text) == [kind |-> "Identifier", str |-> text, num |-> NoNum]

StringTok(text) == [kind |-> "String", str |-> text, num |-> NoNum]

NumberTok(val) == [kind |-> "Number", str |-> <<>>, num |-> val]

ScannerError(kind, line) == [kind |-> kind, line |-> line]

NoToken == Tok("none")

NoError == ScannerError("none", 0)

\* the result of a recognizer: the scanner it leaves, and Ok(Some(tok)),
\* Ok(None), Err(err) or a panic
Some(sc, tok) == [sc |-> sc, res |-> "Some", tok |-> tok, err |-> NoError]

None(sc) == [sc |-> sc, res |-> "None", tok |-> NoToken, err |-> NoError]

Err(sc, err) == [sc |-> sc, res |-> "Err", tok |-> NoToken, err |-> err]

Panic(sc) == [sc |-> sc, res |-> "Panic", tok |-> NoToken, err |-> NoError]

----------------------------------------------------------------------------
(* The scanner.                                                            *)

new(cs) ==
    [src |-> Utf8(cs), chars |-> cs, current |-> 0, start |-> 0, line |-> 1,
     errors |-> <<>>]

advance(sc) == [sc EXCEPT !.current = @ + 1]

at_end(sc) == sc.current >= Len(sc.chars)

peek(sc) == IF at_end(sc) THEN NUL ELSE sc.chars[sc.current + 1]

peek_next(sc) ==
    IF sc.current + 1 >= Len(sc.chars) THEN NUL ELSE sc.chars[sc.current + 2]

match_next(sc, to_match) ==
    IF at_end(sc) THEN FALSE ELSE peek_next(sc) = to_match

----------------------------------------------------------------------------
(* The recognizers.  Each takes the scanner positioned on the first        *)
(* character of the lexeme and gives the scanner positioned on the last    *)
(* character it consumed, with its result.                                 *)

Keywords ==
    {[text |-> <<"a", "n", "d">>, kind |-> "And"],
     [text |-> <<"c", "l", "a", "s", "s">>, kind |-> "Class"],
     [text |-> <<"e", "l", "s", "e">>, kind |-> "Else"],
     [text |-> <<"f", "a", "l", "s", "e">>, kind |-> "False"],
     [text |-> <<"f", "u", "n">>, kind |-> "Fun"],
     [text |-> <<"f", "o", "r">>, kind |-> "For"],
     [text |-> <<"i", "f">>, kind |-> "If"],
     [text |-> <<"n", "i", "l">>, kind |-> "Nil"],
     [text |-> <<"o", "r">>, kind |-> "Or"],
     [text |-> <<"p", "r", "i", "n", "t">>, kind |-> "Print"],
     [text |-> <<"r", "e", "t", "u", "r", "n">>, kind |-> "Return"],
     [text |-> <<"s", "u", "p", "e", "r">>, kind |-> "Super"],
     [text |-> <<"t", "h", "i", "s">>, kind |-> "This"],
     [text |-> <<"t", "r", "u", "e">>, kind |-> "True"],
     [text |-> <<"v", "a", "r">>, kind |-> "Var"],
     [text |-> <<"w", "h", "i", "l", "e">>, kind |-> "While"]}

\* while self.peek_next().is_alphanumeric() { self.advance(); }
RECURSIVE SkipAlphanumeric(_)
SkipAlphanumeric(sc) ==
    IF is_alphanumeric(peek_next(sc)) THEN SkipAlphanumeric(advance(sc)) ELSE sc

identifier(sc) ==
    LET s1 == SkipAlphanumeric(sc)
        id == Slice(s1.src, s1.start, s1.current + 1)
    IN  IF ~id.ok THEN Panic(s1)
        ELSE IF \E k \in Keywords : k.text = id.text
        THEN Some(s1, Tok((CHOOSE k \in Keywords : k.text = id.text).kind))
        ELSE Some(s1, IdentifierTok(id.text))

\* while self.peek_next().is_ascii_digit() { self.advance(); }
RECURSIVE SkipDigits(_)
SkipDigits(sc) ==
    IF is_ascii_digit(peek_next(sc)) THEN SkipDigits(advance(sc)) ELSE sc

\* self.src[self.start..self.current + 1].parse::<f32>().unwrap()
ParseNumber(sc) ==
    LET text == Slice(sc.src, sc.start, sc.current + 1)
        num  == ParseF32(text.text)
    IN  IF text.ok /\ num.ok THEN Some(sc, NumberTok(num.val)) ELSE Panic(sc)

number(sc) ==
    LET s1 == SkipDigits(sc)
    IN  IF peek_next(s1) = "."
        THEN LET s2 == advance(s1)
             IN  IF ~is_ascii_digit(peek_next(s2))
                 THEN Err(s2, ScannerError("InvalidNumber", s2.line))
                 ELSE ParseNumber(SkipDigits(s2))
        ELSE ParseNumber(s1)

\* the loop of string(): the scanner and delta_lines it leaves
RECURSIVE StringLoop(_, _)
StringLoop(sc, delta_lines) ==
    IF peek_next(sc) # "\"" /\ ~at_end(sc)
    THEN StringLoop(advance(sc),
                    IF peek(sc) = "\n" THEN delta_lines + 1 ELSE delta_lines)
    ELSE [sc |-> sc, delta_lines |-> delta_lines]

string(sc) ==
    LET loop == StringLoop(sc, 0)
        s1   == advance(loop.sc)
        s2   == [s1 EXCEPT !.line = @ + loop.delta_lines]
        lit  == Slice(s2.src, s2.start + 1, s2.current)
    IN  IF at_end(s1) THEN Err(s1, ScannerError("UnterminatedString", s1.line))
        ELSE IF ~lit.ok THEN Panic(s2)
        ELSE Some(s2, StringTok(lit.text))

\* two_char_token without its advance past the '=' (a faulty variant)
two_char_token_no_advance(sc) ==
    LET first_char == peek(sc)
        equal_next == match_next(sc, "=")
    IN  CASE first_char = "!" ->
               Some(sc, Tok(IF equal_next THEN "BangEqual" ELSE "Bang"))
          [] first_char = "=" ->
               Some(sc, Tok(IF equal_next THEN "EqualEqual" ELSE "Equal"))
          [] first_char = ">" ->
               Some(sc, Tok(IF equal_next THEN "GreaterEqual" ELSE "Greater"))
          [] first_char = "<" ->
               Some(sc, Tok(IF equal_next THEN "LessEqual" ELSE "Less"))
          [] OTHER -> None(sc)

two_char_token(sc) ==
    LET first_char == peek(sc)
        equal_next == match_next(sc, "=")
        s1         == IF equal_next THEN advance(sc) ELSE sc
    IN  CASE first_char = "!" ->
               Some(s1, Tok(IF equal_next THEN "BangEqual" ELSE "Bang"))
          [] first_char = "=" ->
               Some(s1, Tok(IF equal_next THEN "EqualEqual" ELSE "Equal"))
          [] first_char = ">" ->
               Some(s1, Tok(IF equal_next THEN "GreaterEqual" ELSE "Greater"))
          [] first_char = "<" ->
               Some(s1, Tok(IF equal_next THEN "LessEqual" ELSE "Less"))
          [] OTHER -> None(s1)

\* while (self.peek_next() != '\n') && !self.at_end() { self.advance(); }
RECURSIVE SkipComment(_)
SkipComment(sc) ==
    IF peek_next(sc) # "\n" /\ ~at_end(sc) THEN SkipComment(advance(sc)) ELSE sc

\* comment_or_slash consuming the "//" alone, not the comment text (a faulty
\* variant)
comment_or_slash_one_slash(sc) ==
    IF match_next(sc, "/") THEN None(advance(sc)) ELSE Some(sc, Tok("Slash"))

comment_or_slash(sc) ==
    IF match_next(sc, "/") THEN None(SkipComment(sc)) ELSE Some(sc, Tok("Slash"))

scan_token(sc) ==
    LET c == peek(sc)
    IN  CASE c = "(" -> Some(sc, Tok("LeftParen"))
          [] c = ")" -> Some(sc, Tok("RightParen"))
          [] c = "{" -> Some(sc, Tok("LeftBrace"))
          [] c = "}" -> Some(sc, Tok("RightBrace"))
          [] c = "," -> Some(sc, Tok("Comma"))
          [] c = "." -> Some(sc, Tok("Dot"))
          [] c = "-" -> Some(sc, Tok("Minus"))
          [] c = "+" -> Some(sc, Tok("Plus"))
          [] c = ";" -> Some(sc, Tok("SemiColon"))
          [] c = "*" -> Some(sc, Tok("Star"))
          [] c = "/" -> comment_or_slash(sc)
          [] c \in {"!", "=", "<", ">"} -> two_char_token(sc)
          [] c \in {" ", "\r", "\t"} -> None(sc)
          [] c = "\n" -> None([sc EXCEPT !.line = @ + 1])
          [] c = "\"" -> string(sc)
          [] is_ascii_digit(c) -> number(sc)
          [] is_alphabetic(c) -> identifier(sc)
          [] OTHER -> Err(sc, ScannerError("UnknownToken", sc.line))

----------------------------------------------------------------------------
(* scan(): the loop, one iteration at a time.                              *)

\* one iteration of the loop of scan(), from a scanner not at the end
scan_iteration(sc, toks) ==
    LET r == scan_token([sc EXCEPT !.start = sc.current])
    IN  CASE r.res = "Some" ->
               [pc |-> "loop", sc |-> advance(r.sc), tokens |-> Append(toks, r.tok)]
          [] r.res = "None" ->
               [pc |-> "loop", sc |-> advance(r.sc), tokens |-> toks]
          [] r.res = "Err" ->
               [pc |-> "loop",
                sc |-> advance([r.sc EXCEPT !.errors = Append(@, r.err)]),
                tokens |-> toks]
          [] r.res = "Panic" ->
               [pc |-> "panicked", sc |-> r.sc, tokens |-> toks]

\* scan returning without the Eof token (a faulty variant)
scan_exit_no_eof(toks) == toks

\* tokens.push(Token::Eof); tokens
scan_exit(toks) == Append(toks, Tok("Eof"))

\* the whole of scan(): its outcome, the scanner and the tokens
RECURSIVE scan(_, _)
scan(sc, toks) ==
    IF at_end(sc) THEN [pc |-> "done", sc |-> sc, tokens |-> scan_exit(toks)]
    ELSE LET n == scan_iteration(sc, toks)
         IN  IF n.pc = "panicked" THEN n ELSE scan(n.sc, n.tokens)

InitOver(A, n) ==
    /\ \E cs \in SeqsUpTo(A, n) : scanner = new(cs)
    /\ tokens = <<>>
    /\ pc = "loop"

Init == InitOver(Alphabet, MaxLen)

InitOps == InitOver(AlphabetOps, MaxLenOps)

InitWs == InitOver(AlphabetWs, MaxLenWs)

\* an iteration of the loop: it completes, or a slice or the unwrap panics
ScanIteration ==
    /\ pc = "loop"
    /\ ~at_end(scanner)
    /\ LET n == scan_iteration(scanner, tokens)
       IN  /\ pc' = n.pc
           /\ scanner' = n.sc
           /\ tokens' = n.tokens

\* the loop ends: Eof is pushed and scan returns
ScanReturn ==
    /\ pc = "loop"
    /\ at_end(scanner)
    /\ tokens' = scan_exit(tokens)
    /\ pc' = "done"
    /\ UNCHANGED scanner

Next == ScanIteration \/ ScanReturn

Spec == Init /\ [][Next]_vars

SpecOps == InitOps /\ [][Next]_vars

SpecWs == InitWs /\ [][Next]_vars

----------------------------------------------------------------------------
(* What the properties below say of a source text, read character by       *)
(* character and independently of the scanner.                             *)

\* the character at 0-based index i, NUL past the end
CharAt(cs, i) == IF i < Len(cs) THEN cs[i + 1] ELSE NUL

Min(a, b) == IF a <= b THEN a ELSE b

\* the number of newlines among the first n characters
NewlinesBefore(cs, n) == Cardinality({i \in 1..Min(n, Len(cs)) : cs[i] = "\n"})

\* the 0-based index of the last digit of the digit run that holds index i
RECURSIVE RunEnd(_, _)
RunEnd(cs, i) == IF CharAt(cs, i + 1) \in AsciiDigits THEN RunEnd(cs, i + 1) ELSE i

\* the 0-based indices of the quote characters after index i
QuotesAfter(cs, i) == {j \in (i + 1)..(Len(cs) - 1) : cs[j + 1] = "\""}

SetMin(S) == CHOOSE x \in S : \A y \in S : x <= y

\* whether the first n characters leave the reader in code, in a line
\* comment or in a string literal
RECURSIVE ModeAfter(_, _)
ModeAfter(cs, n) ==
    IF n = 0 THEN "code"
    ELSE LET m == ModeAfter(cs, n - 1)
             c == cs[n]
         IN  CASE m = "code" ->
                    IF c = "\"" THEN "string"
                    ELSE IF c = "/" /\ CharAt(cs, n) = "/" THEN "comment"
                    ELSE "code"
               [] m = "string" -> IF c = "\"" THEN "code" ELSE "string"
               [] m = "comment" -> IF c = "\n" THEN "code" ELSE "comment"

Whitespace == {" ", "\r", "\t", "\n"}

\* the text is made only of whitespace, newlines and line comments
OnlyWsComments(cs) ==
    \A n \in 1..Len(cs) :
        \/ ModeAfter(cs, n) = "comment"
        \/ ModeAfter(cs, n) = "code" /\ cs[n] \in Whitespace

EndsInString(cs) == ModeAfter(cs, Len(cs)) = "string"

Kinds(toks) == {toks[i].kind : i \in 1..Len(toks)}

\* the characters the dispatch of a lexeme attempt is specified to recognize
Recognized ==
    {"(", ")", "{", "}", ",", ".", "-", "+", ";", "*", "/", "!", "=", "<", ">",
     "\"", "\n", " ", "\r", "\t"} \cup AsciiDigits \cup AsciiLetters

AtLexeme == pc = "loop" /\ ~at_end(scanner)

----------------------------------------------------------------------------
(* The properties.                                                         *)

\* C1: whenever scan returns, the tokens are non-empty, hold Eof exactly
\* once, and that Eof is the last token.
C1_EofOnceAndLast ==
    pc = "done" =>
        /\ Len(tokens) >= 1
        /\ tokens[Len(tokens)].kind = "Eof"
        /\ Cardinality({i \in 1..Len(tokens) : tokens[i].kind = "Eof"}) = 1

\* a malformed input has been scanned: scan returned tokens and errors
C1_Witness ==
    /\ pc = "done"
    /\ Len(tokens) > 1
    /\ scanner.errors # <<>>

\* C2: scan never panics: no slice of the source is taken off a character
\* boundary and no number parse fails.
C2_NeverPanics == pc # "panicked"

\* C3: a lexeme attempt on a digit run followed by a '.' that no digit
\* follows pushes the Number of the run, records no error and leaves the
\* cursor on the '.', which the next iteration scans as Dot.
C3_NumberThenDot ==
    [][ (/\ AtLexeme
         /\ is_ascii_digit(peek(scanner))
         /\ CharAt(scanner.chars, RunEnd(scanner.chars, scanner.current) + 1) = "."
         /\ ~is_ascii_digit(
               CharAt(scanner.chars, RunEnd(scanner.chars, scanner.current) + 2)))
        => LET e == RunEnd(scanner.chars, scanner.current)
           IN  /\ tokens' =
                     Append(tokens,
                            NumberTok(Normalize(
                                DigitsValue(SubSeq(scanner.chars,
                                                   scanner.current + 1, e + 1)),
                                0)))
               /\ scanner'.errors = scanner.errors
               /\ scanner'.current = e + 1
               /\ pc' = "loop" ]_vars

\* C4: at the start of every iteration of the loop of scan, line is 1 plus
\* the number of newlines before the cursor.
C4_LineExact ==
    AtLexeme =>
        scanner.line = 1 + NewlinesBefore(scanner.chars, scanner.current)

\* C5: a lexeme attempt on a '"' that no later '"' closes pushes no token,
\* records exactly one UnterminatedString error, whose line is the source
\* line of the opening quote, and leaves the scanner at the end, so that
\* scan returns next.
C5_UnterminatedString ==
    [][ (/\ AtLexeme
         /\ peek(scanner) = "\""
         /\ QuotesAfter(scanner.chars, scanner.current) = {})
        => /\ tokens' = tokens
           /\ scanner'.errors =
                 Append(scanner.errors,
                        ScannerError("UnterminatedString",
                                     1 + NewlinesBefore(scanner.chars,
                                                        scanner.current)))
           /\ pc' = "loop"
           /\ at_end(scanner') ]_vars

\* C6: a lexeme attempt on a character outside the recognized set records
\* exactly one UnknownToken error at the current line, consumes that one
\* character and pushes no token; and every Identifier token is made of
\* ASCII letters and digits.
C6_UnknownToken ==
    [][ /\ (AtLexeme /\ peek(scanner) \notin Recognized)
            => /\ scanner'.errors =
                     Append(scanner.errors,
                            ScannerError("UnknownToken", scanner.line))
               /\ scanner'.current = scanner.current + 1
               /\ tokens' = tokens
               /\ pc' = "loop"
        /\ \A i \in 1..Len(tokens') :
               tokens'[i].kind = "Identifier"
                   => \A k \in 1..Len(tokens'[i].str) :
                          tokens'[i].str[k] \in AsciiLetters \cup AsciiDigits ]_vars

\* C7: a lexeme attempt on a '"' that a later '"' closes pushes the String
\* token whose value is the source text strictly between the two quotes.
C7_StringValue ==
    [][ (/\ AtLexeme
         /\ peek(scanner) = "\""
         /\ QuotesAfter(scanner.chars, scanner.current) # {})
        => LET j == SetMin(QuotesAfter(scanner.chars, scanner.current))
           IN  tokens' =
                   Append(tokens,
                          StringTok(SubSeq(scanner.chars,
                                           scanner.current + 2, j))) ]_vars

Combined(c) ==
    CASE c = "!" -> "BangEqual"
      [] c = "=" -> "EqualEqual"
      [] c = "<" -> "LessEqual"
      [] c = ">" -> "GreaterEqual"

Single(c) ==
    CASE c = "!" -> "Bang"
      [] c = "=" -> "Equal"
      [] c = "<" -> "Less"
      [] c = ">" -> "Greater"

\* C8: a lexeme attempt on '!', '=', '<' or '>' with '=' next consumes both
\* characters and pushes the combined token; with another character or the
\* end of input next it consumes one character and pushes the one-character
\* token.
C8_TwoCharOperators ==
    [][ (AtLexeme /\ peek(scanner) \in {"!", "=", "<", ">"})
        => /\ pc' = "loop"
           /\ scanner'.errors = scanner.errors
           /\ IF CharAt(scanner.chars, scanner.current + 1) = "="
              THEN /\ tokens' = Append(tokens, Tok(Combined(peek(scanner))))
                   /\ scanner'.current = scanner.current + 2
              ELSE /\ tokens' = Append(tokens, Tok(Single(peek(scanner))))
                   /\ scanner'.current = scanner.current + 1 ]_vars

\* combined and one-character operators have both been scanned
C8_Witness ==
    /\ pc = "done"
    /\ {"LessEqual", "Bang", "Equal"} \subseteq Kinds(tokens)
    /\ scanner.chars[Len(scanner.chars)] = ">"

\* the input followed by " // " and a comment text
WithComment(cs, text) == cs \o <<" ", "/", "/", " ">> \o text

\* C9: an input made only of whitespace, newlines and line comments scans
\* to the single token Eof with no error; and appending " // text" to an
\* input that does not end inside a string changes neither the tokens nor
\* the errors.
C9_WhitespaceAndComments ==
    pc = "done" =>
        /\ OnlyWsComments(scanner.chars)
              => tokens = <<Tok("Eof")>> /\ scanner.errors = <<>>
        /\ ~EndsInString(scanner.chars)
              => \A text \in SeqsUpTo(AlphabetComment, MaxComment) :
                    LET r == scan(new(WithComment(scanner.chars, text)), <<>>)
                    IN  /\ r.pc = "done"
                        /\ r.tokens = tokens
                        /\ r.sc.errors = scanner.errors

\* an input of whitespace and a comment that a newline ends has been scanned
C9_Witness ==
    /\ pc = "done"
    /\ OnlyWsComments(scanner.chars)
    /\ \E n \in 2..Len(scanner.chars) :
          /\ scanner.chars[n] = "\n"
          /\ ModeAfter(scanner.chars, n - 1) = "comment"
          /\ scanner.chars[n - 1] \notin Whitespace \cup {"/"}

\* C10: every step of the loop of scan either completes an iteration that
\* strictly increases the cursor or, at the end of the input, appends Eof
\* and returns: the scan is never aborted.
C10_ProgressAndReturn ==
    [][ pc = "loop"
        => IF at_end(scanner)
           THEN pc' = "done" /\ tokens' = Append(tokens, Tok("Eof"))
           ELSE pc' = "loop" /\ scanner'.current > scanner.current ]_vars

====
